---- MODULE Spec2Model ----
(***************************************************************************)
(* Audio assembly and degradation engine of the 911 call generator:        *)
(* AudioProcessor (services/audio_processor.py).                           *)
(*                                                                         *)
(* A Track is what the code holds in an AudioSegment: its length in        *)
(* milliseconds (len(audio)), its channel count, its frame rate and the    *)
(* layers of sound that were written into it.  The AudioSegment operations *)
(* the code calls (empty, silent, +, overlay, set_frame_rate, from_mono_   *)
(* audiosegments, gain) are operators on Tracks.                           *)
(***************************************************************************)
EXTENDS Integers, Sequences, FiniteSets, TLC

\* ------------------------------------------------------------------ bounds

\* Longest dialogue / clip list drawn as an input.
MaxTurns == 2

\* pause_after is drawn as k / PauseDen milliseconds (a float number of
\* seconds in the code, so pause_after * 1000 need not be a whole number).
PauseDen == 3

\* ------------------------------------------------------------- input sets

Speakers == {"dispatcher", "caller", "nurse", "translator"}

\* pause_after values, in units of 1/PauseDen ms: no pause, and a pause of
\* more than a millisecond that is not a whole number of milliseconds.
PauseUnits == {0, 5}

Turns == [speaker : Speakers, pause_after : PauseUnits]

\* A rendered buffer: bytes that decode to a clip of len ms with 1 or 2
\* channels, or bytes that do not decode.
Clips ==
    {[ok |-> FALSE, len |-> 0, channels |-> 1]}
    \cup {[ok |-> TRUE, len |-> 2, channels |-> 1],
          [ok |-> TRUE, len |-> 3, channels |-> 1],
          [ok |-> TRUE, len |-> 2, channels |-> 2]}

SeqsUpTo(S, n) == UNION {[1..k -> S] : k \in 0..n}

\* The (quality, noise type, noise level) triples the assembly is run with:
\* the defaults of the two entry points, and a degraded line with static.
Configs ==
    {<<"high", "none", "moderate">>, <<"very_low", "static", "heavy">>}

\* ------------------------------------------------------------------ Track

Min(a, b) == IF a <= b THEN a ELSE b
Max(a, b) == IF a >= b THEN a ELSE b

\* The working frame rate: that of decoded speech and of generated noise.
WorkRate == 44100

\* A layer of sound inside a track: what it is (kind, p), the channel it
\* sits on, where it starts and how long it lasts (ms), the gain applied to
\* it (dB) and the lowest frame rate it has been resampled through.
Layer(kind, p, ch, at, len, db, band) ==
    [kind |-> kind, p |-> p, ch |-> ch, at |-> at, len |-> len, db |-> db,
     band |-> band]

Track(dur, channels, frame_rate, layers) ==
    [dur |-> dur, channels |-> channels, frame_rate |-> frame_rate,
     layers |-> layers]

\* No track (Python's None).
None == Track(0, 0, 0, {})

\* AudioSegment.empty()
Empty == Track(0, 1, 1, {})

\* AudioSegment.silent(duration=d)
Silent(d) == Track(d, 1, 11025, {})

\* AudioSegment.from_mp3(BytesIO(audio_segments[i])) for a decodable buffer.
from_mp3(clip, i) ==
    Track(clip.len, clip.channels, WorkRate,
          {Layer("clip", i, c, 0, clip.len, 0, WorkRate) :
              c \in 0..(clip.channels - 1)})

\* audio.set_frame_rate(r): resampling, which band-limits every layer.
set_frame_rate(t, r) ==
    IF r = t.frame_rate THEN t
    ELSE [t EXCEPT !.frame_rate = r,
                   !.layers = {[l EXCEPT !.band = Min(l.band, r)] :
                                  l \in t.layers}]

\* audio.set_channels(n): mono is copied to both channels, stereo is mixed
\* down to one.
set_channels(t, n) ==
    IF n = t.channels THEN t
    ELSE IF n = 2
    THEN [t EXCEPT !.channels = 2,
                   !.layers = t.layers \cup
                              {[l EXCEPT !.ch = 1] : l \in t.layers}]
    ELSE [t EXCEPT !.channels = 1,
                   !.layers = {[l EXCEPT !.ch = 0] : l \in t.layers}]

\* AudioSegment._sync: both operands are brought to the larger channel
\* count and the larger frame rate before they are joined.
SyncTo(t, a, b) ==
    set_frame_rate(set_channels(t, Max(a.channels, b.channels)),
                   Max(a.frame_rate, b.frame_rate))

Shift(layers, by) == {[l EXCEPT !.at = l.at + by] : l \in layers}

\* seg1 + seg2
Concat(a, b) ==
    LET s1 == SyncTo(a, a, b)
        s2 == SyncTo(b, a, b)
    IN  Track(s1.dur + s2.dur, s1.channels, s1.frame_rate,
              s1.layers \cup Shift(s2.layers, s1.dur))

\* seg1.overlay(seg2, position=pos): the result is as long as seg1; what
\* of seg2 would lie past the end of seg1 is cut off.
Overlay(a, b, pos) ==
    LET s1 == SyncTo(a, a, b)
        s2 == SyncTo(b, a, b)
        room == Max(0, s1.dur - pos)
        cut == {[l EXCEPT !.len = Min(l.len, room - l.at)] :
                   l \in {m \in s2.layers : m.at < room}}
    IN  Track(s1.dur, s1.channels, s1.frame_rate,
              s1.layers \cup Shift(cut, pos))

\* AudioSegment.from_mono_audiosegments(left, right): defined only when
\* both (after _sync) are mono; it raises ValueError otherwise.
MonoPair(l, r) == Max(l.channels, r.channels) = 1

from_mono_audiosegments(l, r) ==
    LET s1 == SyncTo(l, l, r)
        s2 == SyncTo(r, l, r)
    IN  Track(Max(s1.dur, s2.dur), 2, s1.frame_rate,
              s1.layers \cup {[m EXCEPT !.ch = 1] : m \in s2.layers})

\* seg + db (gain)
Gain(t, db) ==
    [t EXCEPT !.layers = {[l EXCEPT !.db = l.db + db] : l \in t.layers}]

\* seg[:d]
Slice(t, d) ==
    Track(Min(t.dur, d), t.channels, t.frame_rate,
          {[l EXCEPT !.len = Min(l.len, d - l.at)] :
              l \in {m \in t.layers : m.at < d}})

\* seg * n
Repeat(t, n) ==
    Track(n * t.dur, t.channels, t.frame_rate,
          UNION {Shift(t.layers, k * t.dur) : k \in 0..(n - 1)})

\* Generator().to_audio_segment(duration=d): one mono layer at full scale.
Generated(kind, p, d) ==
    Track(d, 1, WorkRate,
          IF d = 0 THEN {} ELSE {Layer(kind, p, 0, 0, d, 0, WorkRate)})

\* Faulty variant of Sine: the duration is left at to_audio_segment's default.
Sine_default_duration(freq, d) == Generated("sine", freq, 1000)

\* Sine(freq).to_audio_segment(duration=d)
Sine(freq, d) == Generated("sine", freq, d)

\* WhiteNoise().to_audio_segment(duration=d)
WhiteNoise(d) == Generated("white", 0, d)

\* ------------------------------------------------------- Quality Degrader

QualityNames == {"high", "medium", "low", "very_low"}

\* Faulty variant of quality_settings: the two lowest tiers are swapped.
quality_settings_swapped(q) ==
    CASE q = "high" -> 44100
      [] q = "medium" -> 32000
      [] q = "low" -> 16000
      [] q = "very_low" -> 22050

\* self.quality_settings[q]['sample_rate']
quality_settings(q) ==
    CASE q = "high" -> 44100
      [] q = "medium" -> 32000
      [] q = "low" -> 22050
      [] q = "very_low" -> 16000

apply_quality_settings(audio, quality) ==
    LET q == IF quality \notin QualityNames THEN "high" ELSE quality
    IN  set_frame_rate(audio, quality_settings(q))

\* ------------------------------------------------------------ noise beds

NoiseLevelNames == {"none", "light", "moderate", "heavy", "extreme"}

\* Faulty variant of noise_levels: 'heavy' is as quiet as 'moderate'.
noise_levels_heavy_as_moderate(level) ==
    CASE level = "none" -> 0
      [] level = "light" -> -30
      [] level = "moderate" -> -20
      [] level = "heavy" -> -20
      [] level = "extreme" -> -5

\* self.noise_levels[level]; 0 stands for the None stored under 'none'
\* (no level maps to 0 dB).
noise_levels(level) ==
    CASE level = "none" -> 0
      [] level = "light" -> -30
      [] level = "moderate" -> -20
      [] level = "heavy" -> -10
      [] level = "extreme" -> -5

SampleTypes == {"static", "dispatch", "traffic", "sirens", "crowd", "wind"}

\* What the file system holds at the sample's path when it is read.
AmbientFiles ==
    {[state |-> "missing", len |-> 0, channels |-> 1],
     [state |-> "corrupt", len |-> 0, channels |-> 1],
     [state |-> "ok", len |-> 0, channels |-> 1],
     [state |-> "ok", len |-> 2, channels |-> 1],
     [state |-> "ok", len |-> 5, channels |-> 2]}

\* AudioSegment.from_file(sample_path) for a decodable sample.
from_file(file) ==
    Track(file.len, file.channels, WorkRate,
          IF file.len = 0 THEN {}
          ELSE {Layer("sample", 0, c, 0, file.len, 0, WorkRate) :
                   c \in 0..(file.channels - 1)})

\* Faulty variant of load_ambient_sample: the sample is looped once too few.
load_ambient_sample_one_loop_short(noise_type, duration_ms, file) ==
    IF noise_type \notin SampleTypes THEN None
    ELSE IF file.state = "missing" THEN None
    ELSE IF file.state = "corrupt" THEN None
    ELSE LET sample == from_file(file)
         IN  IF sample.dur < duration_ms
             THEN IF sample.dur = 0 THEN None
                  ELSE Slice(Repeat(sample, duration_ms \div sample.dur),
                             duration_ms)
             ELSE Slice(sample, duration_ms)

\* Faulty variant of load_ambient_sample: an empty sample is handed out as it is.
load_ambient_sample_keeps_empty(noise_type, duration_ms, file) ==
    IF noise_type \notin SampleTypes THEN None
    ELSE IF file.state = "missing" THEN None
    ELSE IF file.state = "corrupt" THEN None
    ELSE LET sample == from_file(file)
         IN  IF sample.dur < duration_ms
             THEN IF sample.dur = 0 THEN sample
                  ELSE Slice(Repeat(sample, (duration_ms \div sample.dur) + 1),
                             duration_ms)
             ELSE Slice(sample, duration_ms)

\* load_ambient_sample: None when the type has no sample, the file is
\* missing, or anything raises inside the try block (a decode error, or
\* the division by len(sample) = 0).
load_ambient_sample(noise_type, duration_ms, file) ==
    IF noise_type \notin SampleTypes THEN None
    ELSE IF file.state = "missing" THEN None
    ELSE IF file.state = "corrupt" THEN None
    ELSE LET sample == from_file(file)
         IN  IF sample.dur < duration_ms
             THEN IF sample.dur = 0 THEN None
                  ELSE Slice(Repeat(sample, (duration_ms \div sample.dur) + 1),
                             duration_ms)
             ELSE Slice(sample, duration_ms)

\* Faulty variant of BandNoise: the noise is not band-limited.
BandNoise_unfiltered(d, r) == WhiteNoise(d)

\* set_frame_rate(r).set_frame_rate(44100): band-limited noise.
BandNoise(d, r) == set_frame_rate(set_frame_rate(WhiteNoise(d), r), WorkRate)

segment_length == 800

\* Faulty variant of SirenFreq: the tone follows the parity of the offset.
SirenFreq_by_offset(position, jit) ==
    IF position % 2 = 0 THEN 650 + jit ELSE 750 + jit

\* The frequency of the siren segment at `position`, jit being what
\* random.randint(-50, 50) returns (lines 345-348).
SirenFreq(position, jit) ==
    IF (position \div segment_length) % 2 = 0 THEN 650 + jit ELSE 750 + jit

\* Faulty variant of SegDuration: every segment is a full one.
SegDuration_full(position, duration_ms) == segment_length

\* seg_duration = min(segment_length, duration_ms - position)
SegDuration(position, duration_ms) ==
    Min(segment_length, duration_ms - position)

\* tone = Sine(freq).to_audio_segment(duration=seg_duration) - 25
SirenTone(position, duration_ms, jit) ==
    Gain(Sine(SirenFreq(position, jit), SegDuration(position, duration_ms)),
         -25)

\* The sirens while loop from `position` on; rnd[k] is what
\* random.randint(-50, 50) returns for the segment at k * segment_length.
RECURSIVE SirenLoop(_, _, _, _)
SirenLoop(base_silence, position, duration_ms, rnd) ==
    IF ~(position < duration_ms) THEN base_silence
    ELSE LET k == position \div segment_length
             tone == SirenTone(position, duration_ms, rnd[k])
         IN  SirenLoop(Overlay(base_silence, tone, position),
                       position + segment_length, duration_ms, rnd)

\* ambient = WhiteNoise()...set_frame_rate(10000).set_frame_rate(44100) - 25
SirenAmbient(duration_ms) == Gain(BandNoise(duration_ms, 10000), -25)

\* The tone-synthesis branches of generate_background_noise.
Synthesize(duration_ms, noise_type, rnd) ==
    LET d == duration_ms
    IN  CASE noise_type = "static" -> Gain(BandNoise(d, 8000), -5)
          [] noise_type = "dispatch" ->
               Overlay(Overlay(Gain(Sine(60, d), -25), Gain(Sine(120, d), -30), 0),
                       Gain(BandNoise(d, 8000), -20), 0)
          [] noise_type = "traffic" ->
               Overlay(Overlay(Overlay(Gain(Sine(40, d), -15),
                                       Gain(Sine(55, d), -18), 0),
                               Gain(Sine(80, d), -20), 0),
                       Gain(BandNoise(d, 3000), -18), 0)
          [] noise_type = "sirens" ->
               Overlay(SirenLoop(Silent(d), 0, d, rnd), SirenAmbient(d), 0)
          [] noise_type = "crowd" ->
               LET voices == Overlay(Overlay(Overlay(Gain(Sine(110, d), -22),
                                                     Gain(Sine(150, d), -24), 0),
                                             Gain(Sine(200, d), -23), 0),
                                     Gain(Sine(130, d), -25), 0)
               IN  Overlay(Overlay(Overlay(voices, Gain(Sine(800, d), -28), 0),
                                   Gain(Sine(1200, d), -30), 0),
                           Gain(BandNoise(d, 12000), -25), 0)
          [] noise_type = "wind" ->
               Overlay(Overlay(Overlay(Gain(Sine(30, d), -18),
                                       Gain(Sine(45, d), -20), 0),
                               Gain(Sine(65, d), -22), 0),
                       Gain(BandNoise(d, 2000), -22), 0)
          [] OTHER -> BandNoise(d, 8000)

generate_background_noise(duration_ms, noise_type, file, rnd) ==
    LET sample == load_ambient_sample(noise_type, duration_ms, file)
    IN  IF sample # None THEN sample
        ELSE Synthesize(duration_ms, noise_type, rnd)

\* The durations add_background_noise asks generate_background_noise for.
NoiseRequests(audio, noise_type) ==
    IF noise_type = "none" THEN <<>> ELSE <<audio.dur>>

\* Faulty variant of add_background_noise: the None of level 'none' is taken as
\* no gain.
add_background_noise_none_as_zero(audio, noise_type, noise_level, file, rnd) ==
    IF noise_type = "none" THEN audio
    ELSE LET level == IF noise_level \notin NoiseLevelNames
                      THEN "moderate" ELSE noise_level
             noise == generate_background_noise(audio.dur, noise_type, file, rnd)
         IN  Overlay(Gain(noise, noise_levels(level)), audio, 0)

\* Faulty variant of add_background_noise: the short cut tests the level, not the
\* type.
add_background_noise_by_level(audio, noise_type, noise_level, file, rnd) ==
    IF noise_level = "none" THEN audio
    ELSE LET level == IF noise_level \notin NoiseLevelNames
                      THEN "moderate" ELSE noise_level
             noise == generate_background_noise(audio.dur, noise_type, file, rnd)
         IN  Overlay(Gain(noise, noise_levels(level)), audio, 0)

add_background_noise(audio, noise_type, noise_level, file, rnd) ==
    IF noise_type = "none" THEN audio
    ELSE LET level == IF noise_level \notin NoiseLevelNames
                      THEN "moderate" ELSE noise_level
             noise_db == IF noise_levels(level) = 0 THEN -20
                         ELSE noise_levels(level)
             noise == generate_background_noise(audio.dur, noise_type, file, rnd)
         IN  Overlay(Gain(noise, noise_db), audio, 0)

\* ------------------------------------------------------- Track Assembler

VARIABLES
    method,                 \* the AudioProcessor method that is called
    dialogue,               \* the call's arguments
    audio_segments,
    audio,
    audio_quality,
    background_noise_type,
    background_noise_level,
    pc,                     \* where the call is
    i,                      \* loop index (1-based)
    combined,               \* locals of combine_dialogue_audio
    total_duration,         \* locals of create_diarized_audio
    left_channel,
    right_channel,
    position,
    stereo,
    decodes,                \* from_mp3 calls made so far
    overlays,               \* the "Overlaid segment" debug lines
    steps,                  \* pipeline stages run so far
    bed_requests,           \* durations generate_background_noise was asked for
    error,                  \* the exception raised, "none" if none
    result,                 \* the returned track, None if none
    noise_type,             \* arguments of generate_background_noise
    duration_ms,
    sample_file,            \* what is at the sample's path when it is read
    base_silence,           \* locals of the sirens branch
    segments,                \* the siren tones overlaid so far
    form,                   \* the fields of the request to /generate
    calls,                  \* the calls the handler has made, in order
    response,               \* the handler's response
    data,                   \* the argument of _validate_dialogue
    filename                \* the argument of get_file_path

vars ==
    <<method, dialogue, audio_segments, audio, audio_quality,
      background_noise_type, background_noise_level, pc, i, combined, total_duration, left_channel,
      right_channel, position, stereo, decodes, overlays, steps,
      bed_requests, error, result, noise_type, duration_ms, sample_file,
      base_silence, segments, form, calls, response, data, filename>>

\* The variables only generate_background_noise uses.
synth == <<noise_type, duration_ms, sample_file, base_silence, segments>>

\* The variables only the request handlers and _validate_dialogue use.
web == <<form, calls, response, data, filename>>

inputs ==
    <<method, dialogue, audio_segments, audio, audio_quality,
      background_noise_type, background_noise_level>>

Mono == method = "combine_dialogue_audio"
Diarized == method = "create_diarized_audio"

\* Faulty variant of LengthMismatch: only too few clips are caught.
LengthMismatch_too_few(d, a) == Len(d) > Len(a)

\* len(dialogue) != len(audio_segments)
LengthMismatch(d, a) == Len(d) # Len(a)

\* Faulty variant of Decodable: a buffer that does not decode is taken as a clip.
Decodable_always(clip) == TRUE

\* Whether AudioSegment.from_mp3 decodes the buffer (it raises otherwise).
Decodable(clip) == clip.ok

\* Faulty variant of pause_ms: round(item['pause_after'] * 1000).
pause_ms_rounded(item) == (2 * item.pause_after + PauseDen) \div (2 * PauseDen)

\* int(item['pause_after'] * 1000)
pause_ms(item) == item.pause_after \div PauseDen

\* Faulty variant of Pass1Step: the pause is left out of the total.
Pass1Step_no_pause(total, clip, item) == total + clip.dur

\* total_duration += len(audio) + int(item['pause_after'] * 1000)
Pass1Step(total, clip, item) == total + clip.dur + pause_ms(item)

\* Faulty variant of Pass2Step: the cursor advances by the rounded pause.
Pass2Step_rounded(pos, clip, item) ==
    pos + clip.dur + ((2 * item.pause_after + PauseDen) \div (2 * PauseDen))

\* Faulty variant of Pass2Step: the cursor advances by the pause alone.
Pass2Step_pause_only(pos, clip, item) == pos + (item.pause_after \div PauseDen)

\* position += len(audio) + int(item['pause_after'] * 1000)
Pass2Step(pos, clip, item) == pos + clip.dur + pause_ms(item)

\* Faulty variant of channel_of: only the caller goes right.
channel_of_caller_right(speaker) ==
    IF speaker = "caller" THEN "right" ELSE "left"

\* if item['speaker'] == 'dispatcher': left, else: right
channel_of(speaker) == IF speaker = "dispatcher" THEN "left" ELSE "right"

\* The two-turn scenario: clips of 1000 ms and 1500 ms, pauses 0.5 s, 0.8 s.
ScenarioDialogue ==
    <<[speaker |-> "dispatcher", pause_after |-> 500 * PauseDen],
      [speaker |-> "caller", pause_after |-> 800 * PauseDen]>>

ScenarioClips ==
    <<[ok |-> TRUE, len |-> 1000, channels |-> 1],
      [ok |-> TRUE, len |-> 1500, channels |-> 1]>>

Locals ==
    /\ pc = "called"
    /\ i = 1
    /\ combined = None
    /\ total_duration = 0
    /\ left_channel = None
    /\ right_channel = None
    /\ position = 0
    /\ stereo = None
    /\ decodes = 0
    /\ overlays = <<>>
    /\ steps = <<>>
    /\ bed_requests = <<>>
    /\ error = "none"
    /\ result = None
    /\ base_silence = None
    /\ segments = <<>>

\* No request, no response.
NoForm ==
    [prompt |-> [chars |-> 0, blank |-> TRUE], call_duration |-> "", audio_format |-> "",
     diarized |-> FALSE, dispatcher_voice_id |-> "", caller_voice_id |-> ""]
NoResponse == [status |-> 0, success |-> FALSE]

\* No request handler and no validation is running.
NoWebCall ==
    /\ form = NoForm
    /\ calls = <<>>
    /\ response = NoResponse
    /\ data = "none"
    /\ filename = <<>>

\* generate_background_noise is not the method called.
NoSynthCall ==
    /\ noise_type = "none"
    /\ duration_ms = 0
    /\ sample_file = [state |-> "missing", len |-> 0, channels |-> 1]

Init ==
    /\ method \in {"combine_dialogue_audio", "create_diarized_audio"}
    /\ audio = None
    /\ \E c \in Configs :
          /\ audio_quality = c[1]
          /\ background_noise_type = c[2]
          /\ background_noise_level = c[3]
    /\ \/ /\ dialogue \in SeqsUpTo(Turns, MaxTurns)
          /\ audio_segments \in SeqsUpTo(Clips, MaxTurns)
       \/ /\ dialogue = ScenarioDialogue
          /\ audio_segments = ScenarioClips
          /\ background_noise_type = "none"
    /\ Locals
    /\ NoSynthCall
    /\ NoWebCall

Raise(e) ==
    /\ pc' = "raised"
    /\ error' = e

\* Lines 75-82 and 139-148: the length check, then the loop is entered.
LengthCheck ==
    /\ pc = "called"
    /\ IF LengthMismatch(dialogue, audio_segments)
       THEN /\ Raise("ValueError")
            /\ UNCHANGED <<combined>>
       ELSE /\ pc' = IF Mono THEN "combine" ELSE "pass1"
            /\ combined' = IF Mono THEN Empty ELSE combined
            /\ UNCHANGED error
    /\ UNCHANGED <<inputs, web, synth, i, total_duration, left_channel, right_channel,
                   position, stereo, decodes, overlays, steps, bed_requests,
                   result>>

\* Lines 84-99: one iteration of the loop of combine_dialogue_audio.
CombineTurn ==
    /\ pc = "combine"
    /\ i <= Len(dialogue)
    /\ decodes' = decodes + 1
    /\ IF ~Decodable(audio_segments[i])
       THEN /\ Raise("DecodeError")
            /\ UNCHANGED <<i, combined>>
       ELSE LET clip == from_mp3(audio_segments[i], i)
                silence == Silent(pause_ms(dialogue[i]))
            IN  /\ combined' = Concat(Concat(combined, clip), silence)
                /\ i' = i + 1
                /\ UNCHANGED <<pc, error>>
    /\ UNCHANGED <<inputs, web, synth, total_duration, left_channel, right_channel,
                   position, stereo, overlays, steps, bed_requests, result>>

\* Faulty variant of CombineDone: the track goes to the noise step undegraded.
CombineDone_skips_quality ==
    /\ pc = "combine"
    /\ i > Len(dialogue)
    /\ pc' = "noise"
    /\ steps' = Append(steps, "assemble")
    /\ UNCHANGED <<inputs, web, synth, i, combined, total_duration, left_channel,
                   right_channel, position, stereo, decodes, overlays,
                   bed_requests, error, result>>

\* Lines 101-104: the loop of combine_dialogue_audio is over.
CombineDone ==
    /\ pc = "combine"
    /\ i > Len(dialogue)
    /\ pc' = "quality"
    /\ steps' = Append(steps, "assemble")
    /\ UNCHANGED <<inputs, web, synth, i, combined, total_duration, left_channel,
                   right_channel, position, stereo, decodes, overlays,
                   bed_requests, error, result>>

\* Lines 149-151: one iteration of the first pass of create_diarized_audio.
Pass1Turn ==
    /\ pc = "pass1"
    /\ i <= Len(dialogue)
    /\ decodes' = decodes + 1
    /\ IF ~Decodable(audio_segments[i])
       THEN /\ Raise("DecodeError")
            /\ UNCHANGED <<i, total_duration>>
       ELSE LET clip == from_mp3(audio_segments[i], i)
            IN  /\ total_duration' =
                       Pass1Step(total_duration, clip, dialogue[i])
                /\ i' = i + 1
                /\ UNCHANGED <<pc, error>>
    /\ UNCHANGED <<inputs, web, synth, combined, left_channel, right_channel, position,
                   stereo, overlays, steps, bed_requests, result>>

\* Lines 153-160: the silent channels are allocated, the cursor is reset.
Allocate ==
    /\ pc = "pass1"
    /\ i > Len(dialogue)
    /\ left_channel' = Silent(total_duration)
    /\ right_channel' = Silent(total_duration)
    /\ position' = 0
    /\ i' = 1
    /\ pc' = "pass2"
    /\ UNCHANGED <<inputs, web, synth, combined, total_duration, stereo, decodes,
                   overlays, steps, bed_requests, error, result>>

\* Lines 161-177: one iteration of the second pass.
Pass2Turn ==
    /\ pc = "pass2"
    /\ i <= Len(dialogue)
    /\ decodes' = decodes + 1
    /\ IF ~Decodable(audio_segments[i])
       THEN /\ Raise("DecodeError")
            /\ UNCHANGED <<i, left_channel, right_channel, position, overlays>>
       ELSE LET clip == from_mp3(audio_segments[i], i)
                item == dialogue[i]
                channel_name == channel_of(item.speaker)
            IN  /\ IF channel_name = "left"
                   THEN /\ left_channel' = Overlay(left_channel, clip, position)
                        /\ UNCHANGED right_channel
                   ELSE /\ right_channel' = Overlay(right_channel, clip, position)
                        /\ UNCHANGED left_channel
                /\ overlays' = Append(overlays,
                       [turn |-> i, speaker |-> item.speaker,
                        channel |-> channel_name, position |-> position,
                        len |-> clip.dur])
                /\ position' = Pass2Step(position, clip, item)
                /\ i' = i + 1
                /\ UNCHANGED <<pc, error>>
    /\ UNCHANGED <<inputs, web, synth, combined, total_duration, stereo, steps,
                   bed_requests, result>>

\* Lines 179-185: the two channels are joined; from_mono_audiosegments
\* raises ValueError unless both are mono.
Join ==
    /\ pc = "pass2"
    /\ i > Len(dialogue)
    /\ IF ~MonoPair(left_channel, right_channel)
       THEN /\ Raise("ValueError")
            /\ UNCHANGED <<stereo, steps>>
       ELSE /\ stereo' = from_mono_audiosegments(left_channel, right_channel)
            /\ steps' = Append(steps, "assemble")
            /\ pc' = "quality"
            /\ UNCHANGED error
    /\ UNCHANGED <<inputs, web, synth, i, combined, total_duration, left_channel,
                   right_channel, position, decodes, overlays, bed_requests,
                   result>>

\* Lines 106-107 and 187-188.
Quality ==
    /\ pc = "quality"
    /\ IF Mono
       THEN /\ combined' = apply_quality_settings(combined, audio_quality)
            /\ UNCHANGED stereo
       ELSE /\ stereo' = apply_quality_settings(stereo, audio_quality)
            /\ UNCHANGED combined
    /\ steps' = Append(steps, "quality")
    /\ pc' = "noise"
    /\ UNCHANGED <<inputs, web, synth, i, total_duration, left_channel, right_channel,
                   position, decodes, overlays, bed_requests, error, result>>

Jitter == {-50, 0, 50}

\* What random.randint may return for each segment of a bed of d ms.
Rnd(d) == [0..((Max(d, 1) - 1) \div segment_length) -> Jitter]

\* Lines 109-112 and 190-193: the noise is mixed in and the track returned.
Noise ==
    /\ pc = "noise"
    /\ LET track == IF Mono THEN combined ELSE stereo
       IN  /\ \E file \in AmbientFiles, rnd \in Rnd(track.dur) :
                 LET out == add_background_noise(track, background_noise_type,
                                background_noise_level, file, rnd)
                 IN  /\ IF Mono
                        THEN /\ combined' = out
                             /\ UNCHANGED stereo
                        ELSE /\ stereo' = out
                             /\ UNCHANGED combined
                     /\ result' = out
                     /\ sample_file' = IF background_noise_type = "none"
                                       THEN sample_file ELSE file
           /\ bed_requests' =
                  bed_requests \o NoiseRequests(track, background_noise_type)
    /\ steps' = Append(steps, "noise")
    /\ pc' = "returned"
    /\ UNCHANGED <<inputs, web, noise_type, duration_ms, base_silence, segments, i,
                   total_duration, left_channel, right_channel, position,
                   decodes, overlays, error>>

Next ==
    \/ LengthCheck
    \/ CombineTurn
    \/ CombineDone
    \/ Pass1Turn
    \/ Allocate
    \/ Pass2Turn
    \/ Join
    \/ Quality
    \/ Noise

Spec == Init /\ [][Next]_vars

\* ------------------------- the degrader and the mixer called on their own

\* Tracks handed to apply_quality_settings and add_background_noise.
InputTracks ==
    {Empty,
     Silent(4),
     from_mp3([ok |-> TRUE, len |-> 3, channels |-> 1], 1),
     from_mp3([ok |-> TRUE, len |-> 2, channels |-> 2], 1),
     set_frame_rate(from_mp3([ok |-> TRUE, len |-> 5, channels |-> 1], 1), 48000),
     from_mono_audiosegments(
         Overlay(Silent(4), from_mp3([ok |-> TRUE, len |-> 2, channels |-> 1], 1), 0),
         Overlay(Silent(4), from_mp3([ok |-> TRUE, len |-> 1, channels |-> 1], 2), 3))}

QualityInputs == QualityNames \cup {"ultra", ""}

NoiseTypeInputs == SampleTypes \cup {"none", "rain"}

NoiseLevelInputs == NoiseLevelNames \cup {"loud"}

InitDirect ==
    /\ dialogue = <<>>
    /\ audio_segments = <<>>
    /\ audio \in InputTracks
    /\ \/ /\ method = "apply_quality_settings"
          /\ audio_quality \in QualityInputs
          /\ background_noise_type = "none"
          /\ background_noise_level = "moderate"
       \/ /\ method = "add_background_noise"
          /\ audio_quality = "high"
          /\ background_noise_type \in NoiseTypeInputs
          /\ background_noise_level \in NoiseLevelInputs
    /\ Locals
    /\ NoSynthCall
    /\ NoWebCall

\* apply_quality_settings(audio, quality), lines 222-234.
QualityCall ==
    /\ method = "apply_quality_settings"
    /\ pc = "called"
    /\ result' = apply_quality_settings(audio, audio_quality)
    /\ steps' = Append(steps, "quality")
    /\ pc' = "returned"
    /\ UNCHANGED <<inputs, web, synth, i, combined, total_duration, left_channel,
                   right_channel, position, stereo, decodes, overlays,
                   bed_requests, error>>

\* add_background_noise(audio, noise_type, noise_level), lines 418-444;
\* sample_file is what the call finds on disk for the noise type.
NoiseCall ==
    /\ method = "add_background_noise"
    /\ pc = "called"
    /\ \E file \in AmbientFiles, rnd \in Rnd(audio.dur) :
          /\ result' = add_background_noise(audio, background_noise_type,
                           background_noise_level, file, rnd)
          /\ sample_file' = IF background_noise_type = "none"
                            THEN sample_file ELSE file
    /\ bed_requests' = bed_requests \o NoiseRequests(audio, background_noise_type)
    /\ steps' = Append(steps, "noise")
    /\ pc' = "returned"
    /\ UNCHANGED <<inputs, web, noise_type, duration_ms, base_silence, segments, i,
                   combined, total_duration, left_channel, right_channel,
                   position, stereo, decodes, overlays, error>>

NextDirect ==
    \/ QualityCall
    \/ NoiseCall

SpecDirect == InitDirect /\ [][NextDirect]_vars

\* ------------------------------- generate_background_noise called on its own

\* Most siren segments a requested bed has.
MaxSegments == 3

\* Requested durations (ms): none, and for every number of whole segments
\* before it a last segment of 1 ms, of half a segment and of a full one.
Durations ==
    {0} \cup {k * segment_length + r :
                 k \in 0..(MaxSegments - 1), r \in {1, 400, segment_length}}

\* What the sample's path holds for these durations: nothing, a file that
\* does not decode, an empty one, one that has to be looped and one that
\* has to be trimmed.
LongAmbientFiles ==
    {[state |-> "missing", len |-> 0, channels |-> 1],
     [state |-> "corrupt", len |-> 0, channels |-> 1],
     [state |-> "ok", len |-> 0, channels |-> 1],
     [state |-> "ok", len |-> 1000, channels |-> 1],
     [state |-> "ok", len |-> 5000, channels |-> 2]}

InitSynth ==
    /\ method = "generate_background_noise"
    /\ noise_type \in NoiseTypeInputs
    /\ duration_ms \in Durations
    /\ sample_file \in LongAmbientFiles
    /\ dialogue = <<>>
    /\ audio_segments = <<>>
    /\ audio = None
    /\ audio_quality = "high"
    /\ background_noise_type = "none"
    /\ background_noise_level = "moderate"
    /\ Locals
    /\ NoWebCall

\* Lines 292-298: the sample is tried first; tone synthesis is the fallback.
LoadSample ==
    /\ method = "generate_background_noise"
    /\ pc = "called"
    /\ LET sample == load_ambient_sample(noise_type, duration_ms, sample_file)
       IN  IF sample # None
           THEN /\ result' = sample
                /\ steps' = Append(steps, "sample")
                /\ pc' = "returned"
           ELSE /\ steps' = Append(steps, "synthesis")
                /\ pc' = "synthesis"
                /\ UNCHANGED result
    /\ UNCHANGED <<inputs, web, noise_type, duration_ms, sample_file, base_silence,
                   segments, i, combined, total_duration, left_channel,
                   right_channel, position, stereo, decodes, overlays,
                   bed_requests, error>>

\* Lines 300-333 and 361-399: every branch but sirens.
Recipe ==
    /\ pc = "synthesis"
    /\ noise_type # "sirens"
    /\ result' = Synthesize(duration_ms, noise_type, <<>>)
    /\ pc' = "returned"
    /\ UNCHANGED <<inputs, web, synth, i, combined, total_duration, left_channel,
                   right_channel, position, stereo, decodes, overlays, steps,
                   bed_requests, error>>

\* Lines 335-341: the sirens branch is entered.
SirenStart ==
    /\ pc = "synthesis"
    /\ noise_type = "sirens"
    /\ base_silence' = Silent(duration_ms)
    /\ position' = 0
    /\ pc' = "sirens"
    /\ UNCHANGED <<inputs, web, noise_type, duration_ms, sample_file, segments, i,
                   combined, total_duration, left_channel, right_channel,
                   stereo, decodes, overlays, steps, bed_requests, error,
                   result>>

\* Lines 343-353: one iteration of the while loop.
SirenSegment ==
    /\ pc = "sirens"
    /\ position < duration_ms
    /\ \E jit \in Jitter :
          /\ base_silence' =
                 Overlay(base_silence,
                         SirenTone(position, duration_ms, jit), position)
          /\ segments' = Append(segments,
                 [position |-> position,
                  freq |-> SirenFreq(position, jit),
                  seg_duration |-> SegDuration(position, duration_ms)])
    /\ position' = position + segment_length
    /\ UNCHANGED <<inputs, web, noise_type, duration_ms, sample_file, i, combined,
                   total_duration, left_channel, right_channel, stereo,
                   decodes, overlays, steps, bed_requests, error, result, pc>>

\* Lines 355-359 and 399: the loop is over, the ambient noise is added.
SirenDone ==
    /\ pc = "sirens"
    /\ ~(position < duration_ms)
    /\ result' = Overlay(base_silence, SirenAmbient(duration_ms), 0)
    /\ pc' = "returned"
    /\ UNCHANGED <<inputs, web, synth, i, combined, total_duration, left_channel,
                   right_channel, position, stereo, decodes, overlays, steps,
                   bed_requests, error>>

NextSynth ==
    \/ LoadSample
    \/ Recipe
    \/ SirenStart
    \/ SirenSegment
    \/ SirenDone

\* The steps of the sirens branch, from the call to the return.
SirensBranch ==
    \/ LoadSample
    \/ SirenStart
    \/ SirenSegment
    \/ SirenDone

\* The sirens branch runs on: no step of it waits for anything.
SpecSynth == InitSynth /\ [][NextSynth]_vars /\ WF_vars(SirensBranch)

\* ------------------------------------------- GeminiService._validate_dialogue

\* Most items a parsed dialogue has.
MaxItems == 4

\* A parsed value: a number, or something else (here a string).
Num(v) == [type |-> "number", val |-> v]
Str(v) == [type |-> "string", val |-> v]

Item(keys, speaker, text, pause_after) ==
    [keys |-> keys, speaker |-> speaker, text |-> text,
     pause_after |-> pause_after]

\* The items a parsed response is made of: three that pass every check of
\* the loop (one of them with a negative pause) and one failing each check.
ValidateItems ==
    {Item(TRUE, "dispatcher", "help", Num(1)),
     Item(TRUE, "caller", "fire", Num(0)),
     Item(TRUE, "nurse", "ok", Num(-1)),
     Item(FALSE, "caller", "fire", Num(1)),
     Item(TRUE, "operator", "hi", Num(1)),
     Item(TRUE, "caller", " ", Num(1)),
     Item(TRUE, "translator", "si", Str(1))}

\* text.strip()
strip(text) == IF text = " " THEN "" ELSE text

\* not item['text'] or not item['text'].strip()
EmptyText(text) == text = "" \/ strip(text) = ""

\* isinstance(item['pause_after'], (int, float))
IsNumber(v) == v.type = "number"

InitValidate ==
    /\ method = "_validate_dialogue"
    /\ \/ /\ data \in {"no_key", "not_list"}
          /\ dialogue = <<>>
       \/ /\ data = "list"
          /\ dialogue \in SeqsUpTo(ValidateItems, MaxItems)
    /\ audio_segments = <<>>
    /\ audio = None
    /\ audio_quality = "high"
    /\ background_noise_type = "none"
    /\ background_noise_level = "moderate"
    /\ Locals
    /\ NoSynthCall
    /\ form = NoForm
    /\ calls = <<>>
    /\ response = NoResponse
    /\ filename = <<>>

\* Lines 470-483: the 'dialogue' key, its type and its length.
ValidateShape ==
    /\ method = "_validate_dialogue"
    /\ pc = "called"
    /\ IF data = "no_key" \/ data = "not_list" \/ Len(dialogue) < 4
       THEN /\ result' = FALSE
            /\ pc' = "returned"
       ELSE /\ pc' = "items"
            /\ UNCHANGED result
    /\ UNCHANGED <<inputs, web, synth, i, combined, total_duration,
                   left_channel, right_channel, position, stereo, decodes,
                   overlays, steps, bed_requests, error>>

\* Lines 486-506: the checks made on one item.
ValidateItem ==
    /\ pc = "items"
    /\ i <= Len(dialogue)
    /\ LET item == dialogue[i]
       IN  IF \/ ~item.keys
              \/ item.speaker \notin
                     {"dispatcher", "caller", "nurse", "translator"}
              \/ EmptyText(item.text)
              \/ ~IsNumber(item.pause_after)
           THEN /\ result' = FALSE
                /\ pc' = "returned"
                /\ UNCHANGED i
           ELSE /\ i' = i + 1
                /\ UNCHANGED <<pc, result>>
    /\ UNCHANGED <<inputs, web, synth, combined, total_duration, left_channel,
                   right_channel, position, stereo, decodes, overlays, steps,
                   bed_requests, error>>

\* Line 508: every item has passed.
ValidateAccept ==
    /\ pc = "items"
    /\ i > Len(dialogue)
    /\ result' = TRUE
    /\ pc' = "returned"
    /\ UNCHANGED <<inputs, web, synth, i, combined, total_duration,
                   left_channel, right_channel, position, stereo, decodes,
                   overlays, steps, bed_requests, error>>

NextValidate ==
    \/ ValidateShape
    \/ ValidateItem
    \/ ValidateAccept

SpecValidate == InitValidate /\ [][NextValidate]_vars

\* ------------------------------------------------------- /generate handler

\* config.MAX_PROMPT_LENGTH
MAX_PROMPT_LENGTH == 500

\* config.ALLOWED_AUDIO_FORMATS
ALLOWED_AUDIO_FORMATS == {"mp3", "wav"}

\* The dialogue must have at least 4 exchanges (gemini_service, line 481).
MinExchanges == 4

\* A prompt is a number of characters, all of them white space or not.
Prompts ==
    {[chars |-> 0, blank |-> TRUE],
     [chars |-> 3, blank |-> TRUE],
     [chars |-> 4, blank |-> FALSE],
     [chars |-> MAX_PROMPT_LENGTH, blank |-> FALSE],
     [chars |-> MAX_PROMPT_LENGTH + 1, blank |-> FALSE]}

\* prompt.strip()
strip_prompt(prompt) ==
    IF prompt.blank THEN [chars |-> 0, blank |-> TRUE] ELSE prompt

\* audio_format.lower()
lower(format) ==
    CASE format = "WAV" -> "wav"
      [] format = "MP3" -> "mp3"
      [] OTHER -> format

\* int(call_duration_str) raises ValueError unless the string is a number.
IsInt(str) == str \in {"60", "30"}

Forms ==
    [prompt : Prompts,
     call_duration : {"", "60", "abc"},
     audio_format : {"mp3", "WAV", "ogg"},
     diarized : BOOLEAN,
     dispatcher_voice_id : {"", "v1"},
     caller_voice_id : {"", "v2"}]

\* Faulty variant of validate_prompt: the length is not checked.
validate_prompt_any_length(prompt, max_length) ==
    ~(prompt.chars = 0 \/ strip_prompt(prompt).chars = 0)

\* validate_prompt(prompt, max_length): is_valid
validate_prompt(prompt, max_length) ==
    IF prompt.chars = 0 \/ strip_prompt(prompt).chars = 0 THEN FALSE
    ELSE IF prompt.chars > max_length THEN FALSE
    ELSE TRUE

\* validate_audio_format(format, allowed_formats)
validate_audio_format(format, allowed_formats) ==
    lower(format) \in allowed_formats

\* The dialogues generate_dialogue returns (they have passed
\* _validate_dialogue), as the speakers of their turns.
HandlerDialogues ==
    {d \in [1..MinExchanges -> {"dispatcher", "caller", "nurse"}] :
        d[1] = "dispatcher"}

\* What a text-to-speech call returns: bytes that decode to a mono or a
\* stereo clip, or bytes that do not decode.
Rendered == {[ok |-> TRUE, len |-> 2, channels |-> 1],
             [ok |-> TRUE, len |-> 2, channels |-> 2],
             [ok |-> FALSE, len |-> 0, channels |-> 1]}

\* Faulty variant of append: the new clip is put in front.
append_in_front(list, audio_bytes) == <<audio_bytes>> \o list

\* audio_segments.append(audio_bytes)
append(list, audio_bytes) == Append(list, audio_bytes)

\* What the assembler does with the clips: it raises ValueError for lists
\* of different lengths and, in create_diarized_audio, for a stereo clip;
\* a buffer that does not decode raises pydub's CouldntDecodeError.
AssemblyOutcome(diarized, d, a) ==
    IF LengthMismatch(d, a) THEN "ValueError"
    ELSE IF \E k \in 1..Len(a) : ~Decodable(a[k]) THEN "DecodeError"
    ELSE IF diarized /\ \E k \in 1..Len(a) : a[k].channels = 2
    THEN "ValueError"
    ELSE "none"

\* Faulty variant of StatusOf: every exception is answered with 500.
StatusOf_always_500(e) == 500

\* except ValueError: 400; except Exception: 500
StatusOf(e) == IF e = "ValueError" THEN 400 ELSE 500

InitGenerate ==
    /\ method = "generate"
    /\ form \in Forms
    /\ calls = <<>>
    /\ response = NoResponse
    /\ data = "none"
    /\ filename = <<>>
    /\ dialogue = <<>>
    /\ audio_segments = <<>>
    /\ audio = None
    /\ audio_quality = "high"
    /\ background_noise_type = "none"
    /\ background_noise_level = "moderate"
    /\ Locals
    /\ NoSynthCall

\* The handler's except clauses, lines 186-199.
Fail(e) ==
    /\ error' = e
    /\ response' = [status |-> StatusOf(e), success |-> FALSE]
    /\ pc' = "returned"

\* return jsonify({"error": ...}), 400
Reject ==
    /\ response' = [status |-> 400, success |-> FALSE]
    /\ pc' = "returned"
    /\ UNCHANGED error

\* Lines 63-100: the form is read and validated.
ValidateForm ==
    /\ method = "generate"
    /\ pc = "called"
    /\ LET prompt == strip_prompt(form.prompt)
       IN  IF form.call_duration # "" /\ ~IsInt(form.call_duration)
           THEN Fail("ValueError")
           ELSE IF ~validate_prompt(prompt, MAX_PROMPT_LENGTH) THEN Reject
           ELSE IF ~validate_audio_format(lower(form.audio_format),
                                          ALLOWED_AUDIO_FORMATS)
           THEN Reject
           ELSE IF form.dispatcher_voice_id = "" \/ form.caller_voice_id = ""
           THEN Reject
           ELSE /\ pc' = "voices"
                /\ UNCHANGED <<error, response>>
    /\ UNCHANGED <<method, dialogue, audio_segments, audio, audio_quality,
                   background_noise_type, background_noise_level, synth,
                   form, calls, data, filename, i, combined, total_duration,
                   left_channel, right_channel, position, stereo, decodes,
                   overlays, steps, bed_requests, result>>

\* Lines 102-107: get_voice_info never raises (it answers 'unknown').
VoiceInfo ==
    /\ pc = "voices"
    /\ calls' = calls \o <<"get_voice_info", "get_voice_info">>
    /\ pc' = "dialogue"
    /\ UNCHANGED <<inputs, synth, form, response, data, filename, i,
                   combined, total_duration, left_channel, right_channel,
                   position, stereo, decodes, overlays, steps, bed_requests,
                   error, result>>

\* Lines 109-122: generate_dialogue returns a validated dialogue or
\* raises ValueError (gemini_service, lines 72-86).
GenerateDialogue ==
    /\ pc = "dialogue"
    /\ calls' = Append(calls, "generate_dialogue")
    /\ \/ /\ Fail("ValueError")
          /\ UNCHANGED <<dialogue, audio_segments, i>>
       \/ /\ \E d \in HandlerDialogues :
                dialogue' = [k \in 1..Len(d) |->
                                [speaker |-> d[k], pause_after |-> 0]]
          /\ audio_segments' = <<>>
          /\ i' = 1
          /\ pc' = "speech"
          /\ UNCHANGED <<error, response>>
    /\ UNCHANGED <<method, audio, audio_quality, background_noise_type,
                   background_noise_level, synth, form, data, filename,
                   combined, total_duration, left_channel, right_channel,
                   position, stereo, decodes, overlays, steps, bed_requests,
                   result>>

\* Lines 128-147: one iteration of the speech loop; text_to_speech raises
\* Exception when the service fails (elevenlabs_service, lines 98-100).
Speech ==
    /\ pc = "speech"
    /\ i <= Len(dialogue)
    /\ calls' = Append(calls, "text_to_speech")
    /\ \/ /\ Fail("SpeechError")
          /\ UNCHANGED <<audio_segments, i>>
       \/ /\ \E bytes \in Rendered :
                LET voice == IF dialogue[i].speaker = "dispatcher"
                             THEN form.dispatcher_voice_id
                             ELSE form.caller_voice_id
                    audio_bytes ==
                        [ok |-> bytes.ok, len |-> bytes.len,
                         channels |-> bytes.channels, turn |-> i,
                         voice |-> voice]
                IN  audio_segments' = append(audio_segments, audio_bytes)
          /\ i' = i + 1
          /\ UNCHANGED <<pc, error, response>>
    /\ UNCHANGED <<method, dialogue, audio, audio_quality,
                   background_noise_type, background_noise_level, synth,
                   form, data, filename, combined, total_duration,
                   left_channel, right_channel, position, stereo, decodes,
                   overlays, steps, bed_requests, result>>

\* Lines 149-161: the assembler is called with the dialogue and the clips.
Assemble ==
    /\ pc = "speech"
    /\ i > Len(dialogue)
    /\ calls' = Append(calls, IF form.diarized THEN "create_diarized_audio"
                              ELSE "combine_dialogue_audio")
    /\ LET e == AssemblyOutcome(form.diarized, dialogue, audio_segments)
       IN  IF e # "none" THEN Fail(e)
           ELSE /\ pc' = "save"
                /\ UNCHANGED <<error, response>>
    /\ UNCHANGED <<inputs, synth, form, data, filename, i, combined,
                   total_duration, left_channel, right_channel, position,
                   stereo, decodes, overlays, steps, bed_requests, result>>

\* Lines 163-184: the file is written (the export may fail) and the
\* success response returned.
Save ==
    /\ pc = "save"
    /\ calls' = Append(calls, "save_audio_file")
    /\ \/ /\ Fail("ExportError")
          /\ UNCHANGED steps
       \/ /\ response' = [status |-> 200, success |-> TRUE]
          /\ steps' = Append(steps, "saved")
          /\ pc' = "returned"
          /\ UNCHANGED error
    /\ UNCHANGED <<inputs, synth, form, data, filename, i, combined,
                   total_duration, left_channel, right_channel, position,
                   stereo, decodes, overlays, bed_requests, result>>

NextGenerate ==
    \/ ValidateForm
    \/ VoiceInfo
    \/ GenerateDialogue
    \/ Speech
    \/ Assemble
    \/ Save

SpecGenerate == InitGenerate /\ [][NextGenerate]_vars

\* ------------------------------------- FileManager.get_file_path, /download

\* Most components a requested filename has.
MaxDepth == 3

\* Paths are strings, written as sequences of characters. The process runs
\* in /w, the output directory is the relative path s/a ('static/audio'),
\* and next to it lies s/ab, whose name starts with the name of s/a.
cwd == <<"/", "w">>
output_dir == <<"s", "/", "a">>

\* What a filename is made of, between its slashes.
Components ==
    {<<".", ".">>, <<".">>, <<"a">>, <<"a", "b">>, <<"f">>, <<"s">>, <<"w">>}

RECURSIVE Slashed(_)
\* The components, each with a slash in front of it.
Slashed(comps) ==
    IF comps = <<>> THEN <<>>
    ELSE <<"/">> \o Head(comps) \o Slashed(Tail(comps))

\* The filenames asked for: relative ones (a/f) and absolute ones (/a/f).
Filenames ==
    {Tail(Slashed(comps)) : comps \in SeqsUpTo(Components, MaxDepth) \ {<<>>}}
    \cup {Slashed(comps) : comps \in SeqsUpTo(Components, MaxDepth) \ {<<>>}}

RECURSIVE Split(_)
\* path.split('/')
Split(path) ==
    IF path = <<>> THEN << <<>> >>
    ELSE LET rest == Split(Tail(path))
         IN  IF Head(path) = "/" THEN << <<>> >> \o rest
             ELSE << <<Head(path)>> \o Head(rest) >> \o Tail(rest)

RECURSIVE Normalize(_, _)
\* os.path.normpath of an absolute path: empty components and '.' are
\* dropped, '..' removes the component before it (none at the root).
Normalize(comps, stack) ==
    IF comps = <<>> THEN stack
    ELSE LET c == Head(comps)
         IN  IF c = <<>> \/ c = <<".">> THEN Normalize(Tail(comps), stack)
             ELSE IF c = <<".", ".">>
             THEN Normalize(Tail(comps),
                            IF stack = <<>> THEN stack
                            ELSE SubSeq(stack, 1, Len(stack) - 1))
             ELSE Normalize(Tail(comps), Append(stack, c))

IsAbsolute(path) == path # <<>> /\ Head(path) = "/"

\* os.path.join(a, b)
join(a, b) ==
    IF IsAbsolute(b) THEN b
    ELSE IF a = <<>> \/ a[Len(a)] = "/" THEN a \o b
    ELSE a \o <<"/">> \o b

\* The components of os.path.abspath(path).
Resolved(path) ==
    Normalize(Split(IF IsAbsolute(path) THEN path ELSE join(cwd, path)), <<>>)

\* os.path.abspath(path)
abspath(path) ==
    IF Resolved(path) = <<>> THEN <<"/">> ELSE Slashed(Resolved(path))

\* str.startswith(prefix)
startswith(str, prefix) ==
    /\ Len(prefix) <= Len(str)
    /\ SubSeq(str, 1, Len(prefix)) = prefix

InitDownload ==
    /\ method = "download"
    /\ filename \in Filenames
    /\ form = NoForm
    /\ calls = <<>>
    /\ response = NoResponse
    /\ data = "none"
    /\ dialogue = <<>>
    /\ audio_segments = <<>>
    /\ audio = None
    /\ audio_quality = "high"
    /\ background_noise_type = "none"
    /\ background_noise_level = "moderate"
    /\ Locals
    /\ NoSynthCall

\* file_manager lines 87-92: the traversal check of get_file_path; app.py
\* lines 219-221 answer its ValueError with 400.
TraversalCheck ==
    /\ method = "download"
    /\ pc = "called"
    /\ LET filepath == join(output_dir, filename)
       IN  IF ~startswith(abspath(filepath), abspath(output_dir))
           THEN /\ error' = "ValueError"
                /\ response' = [status |-> 400, success |-> FALSE]
                /\ pc' = "returned"
           ELSE /\ pc' = "exists"
                /\ UNCHANGED <<error, response>>
    /\ UNCHANGED <<inputs, synth, form, calls, data, filename, i, combined,
                   total_duration, left_channel, right_channel, position,
                   stereo, decodes, overlays, steps, bed_requests, result>>

\* file_manager lines 93-96: the file is there or not; app.py lines 216-218
\* answer FileNotFoundError with 404.
ExistsCheck ==
    /\ pc = "exists"
    /\ \E exists \in BOOLEAN :
          IF ~exists
          THEN /\ error' = "FileNotFoundError"
               /\ response' = [status |-> 404, success |-> FALSE]
               /\ pc' = "returned"
               /\ UNCHANGED result
          ELSE /\ result' = join(output_dir, filename)
               /\ pc' = "send"
               /\ UNCHANGED <<error, response>>
    /\ UNCHANGED <<inputs, synth, form, calls, data, filename, i, combined,
                   total_duration, left_channel, right_channel, position,
                   stereo, decodes, overlays, steps, bed_requests>>

\* app.py line 215: send_file(filepath, as_attachment=True)
SendFile ==
    /\ pc = "send"
    /\ calls' = Append(calls, "send_file")
    /\ response' = [status |-> 200, success |-> TRUE]
    /\ pc' = "returned"
    /\ UNCHANGED <<inputs, synth, form, data, filename, i, combined,
                   total_duration, left_channel, right_channel, position,
                   stereo, decodes, overlays, steps, bed_requests, error,
                   result>>

NextDownload ==
    \/ TraversalCheck
    \/ ExistsCheck
    \/ SendFile

SpecDownload == InitDownload /\ [][NextDownload]_vars

\* ------------------------------------------------------------ properties

RECURSIVE SumClipLen(_, _)
\* Sum of the decoded lengths of the first n clips (ms).
SumClipLen(a, n) == IF n = 0 THEN 0 ELSE SumClipLen(a, n - 1) + a[n].len

RECURSIVE SumPauseUnits(_, _)
\* Sum of pause_after * 1000 over the first n turns, in 1/PauseDen ms.
SumPauseUnits(d, n) ==
    IF n = 0 THEN 0 ELSE SumPauseUnits(d, n - 1) + d[n].pause_after

RECURSIVE SumPauseWhole(_, _)
\* Sum over the first n turns of pause_after * 1000 cut to whole ms.
SumPauseWhole(d, n) ==
    IF n = 0 THEN 0
    ELSE SumPauseWhole(d, n - 1) + (d[n].pause_after \div PauseDen)

SameLengths == Len(dialogue) = Len(audio_segments)
AllDecodable == \A j \in 1..Len(audio_segments) : audio_segments[j].ok
ValidInput == SameLengths /\ AllDecodable
Assembled == pc \in {"quality", "noise", "returned"}
Ended == pc \in {"returned", "raised"}
FractionalPause(item) == item.pause_after % PauseDen # 0

\* ---- C1

RECURSIVE CombineLoop(_, _, _)
\* What the loop of combine_dialogue_audio has built after n turns.
CombineLoop(d, a, n) ==
    IF n = 0 THEN Empty
    ELSE Concat(Concat(CombineLoop(d, a, n - 1), from_mp3(a[n], n)),
                Silent(pause_ms(d[n])))

\* C2 as stated: for every valid input create_diarized_audio returns a
\* track with exactly 2 channels that is as long as the track
\* combine_dialogue_audio builds from the same input.
C2_StereoSameDuration ==
    (Diarized /\ ValidInput /\ Ended) =>
        /\ pc = "returned"
        /\ result.channels = 2
        /\ result.dur =
               CombineLoop(dialogue, audio_segments, Len(dialogue)).dur

\* ---- C3

Pass2Over ==
    \/ pc = "pass2" /\ i > Len(dialogue)
    \/ Assembled
    \/ pc = "raised" /\ error = "ValueError" /\ SameLengths

\* C3: once the second pass of create_diarized_audio has processed the
\* last turn, the cursor equals the total_duration the first pass computed.
C3_TotalIsFinalCursor ==
    (Diarized /\ Pass2Over) => position = total_duration

C3_Witness ==
    /\ Diarized
    /\ pc = "returned"
    /\ Len(dialogue) = 2
    /\ FractionalPause(dialogue[1])
    /\ dialogue[2].pause_after > PauseDen
    /\ position = total_duration
    /\ total_duration > SumClipLen(audio_segments, 2)

\* ---- C4

ClipLayers(t, k) == {l \in t.layers : l.kind = "clip" /\ l.p = k}

ChannelTrack(name) == IF name = "left" THEN left_channel ELSE right_channel

\* C4 as stated: turn k is overlaid at the sum, over the turns before it,
\* of decoded length plus pause_after * 1000.
C4_PositionsExact ==
    Diarized =>
        \A k \in 1..Len(overlays) :
            PauseDen * overlays[k].position =
                PauseDen * SumClipLen(audio_segments, k - 1)
                + SumPauseUnits(dialogue, k - 1)

\* C4 (amended): turn k is overlaid at the sum, over the turns before it,
\* of decoded length plus the pause cut to whole milliseconds; the first
\* turn is at offset 0 and the offsets never decrease.
C4_Positions ==
    Diarized =>
        \A k \in 1..Len(overlays) :
            /\ overlays[k].turn = k
            /\ overlays[k].position =
                   SumClipLen(audio_segments, k - 1)
                   + SumPauseWhole(dialogue, k - 1)
            /\ k = 1 => overlays[k].position = 0
            /\ k > 1 => overlays[k - 1].position <= overlays[k].position
            /\ pc \in {"pass1", "pass2"} =>
                   \A l \in ClipLayers(ChannelTrack(overlays[k].channel), k) :
                       l.at = overlays[k].position

C4_Witness ==
    /\ Diarized
    /\ pc = "returned"
    /\ Len(overlays) = 2
    /\ FractionalPause(dialogue[1])
    /\ overlays[1].position = 0
    /\ overlays[2].position = audio_segments[1].len + 1

\* ---- C5

\* C5: a processed turn's clip is in the left channel exactly if its
\* speaker is the dispatcher and in the right channel exactly if it is
\* not; in the joined track it sits on channel 0 or on channel 1 accordingly.
C5_ChannelBySpeaker ==
    Diarized =>
        /\ \A k \in 1..Len(overlays) :
              LET disp == dialogue[k].speaker = "dispatcher"
              IN  /\ overlays[k].channel = "left" <=> disp
                  /\ pc = "pass2" =>
                        /\ ClipLayers(left_channel, k) # {} <=> disp
                        /\ ClipLayers(right_channel, k) # {} <=> ~disp
        /\ Assembled =>
              \A k \in 1..Len(dialogue) :
                  /\ ClipLayers(stereo, k) # {}
                  /\ \A l \in ClipLayers(stereo, k) :
                        l.ch = IF dialogue[k].speaker = "dispatcher"
                               THEN 0 ELSE 1

C5_Witness ==
    /\ Diarized
    /\ pc = "returned"
    /\ Len(dialogue) = 2
    /\ dialogue[1].speaker = "translator"
    /\ dialogue[2].speaker = "dispatcher"
    /\ \E l \in ClipLayers(result, 1) : l.ch = 1
    /\ \E l \in ClipLayers(result, 2) : l.ch = 0

\* ---- C6

\* C6: every overlay of create_diarized_audio ends inside the allocated
\* channel, and the clip is written in full.
C6_OverlayInside ==
    Diarized =>
        \A k \in 1..Len(overlays) :
            /\ overlays[k].position + overlays[k].len <= total_duration
            /\ pc = "pass2" =>
                  \A l \in ClipLayers(ChannelTrack(overlays[k].channel), k) :
                      l.len = audio_segments[k].len

C6_Witness ==
    /\ Diarized
    /\ pc = "returned"
    /\ Len(overlays) = 2
    /\ dialogue[1].pause_after > PauseDen
    /\ dialogue[2].pause_after = 0
    /\ overlays[2].position + overlays[2].len = total_duration

\* ---- C7

\* C7: with lists of different lengths both entry points raise ValueError
\* before any clip is decoded, and no track is built or returned.
C7_LengthMismatch ==
    (Len(dialogue) # Len(audio_segments) /\ pc # "called") =>
        /\ pc = "raised"
        /\ error = "ValueError"
        /\ decodes = 0
        /\ result = None
        /\ combined = None
        /\ stereo = None

C7_Witness ==
    /\ Diarized
    /\ pc = "raised"
    /\ error = "ValueError"
    /\ Len(dialogue) = 1
    /\ Len(audio_segments) = 2

\* ---- C8

FirstBad ==
    CHOOSE j \in 1..Len(audio_segments) :
        /\ ~audio_segments[j].ok
        /\ \A k \in 1..(j - 1) : audio_segments[k].ok

\* C8: when some buffer does not decode, the call never returns a track;
\* it ends with the decode error at the first such buffer, which is
\* decoded once and is not skipped.
C8_DecodeErrorAborts ==
    (SameLengths /\ ~AllDecodable) =>
        /\ ~Assembled
        /\ result = None
        /\ decodes <= FirstBad
        /\ pc = "raised" =>
              /\ error = "DecodeError"
              /\ decodes = FirstBad
              /\ i = FirstBad

C8_Witness ==
    /\ Mono
    /\ pc = "raised"
    /\ error = "DecodeError"
    /\ Len(audio_segments) = 2
    /\ audio_segments[1].ok
    /\ decodes = 2
    /\ combined.dur > 0

\* ---- C9

\* C9: apply_quality_settings returns a track at 44100 / 32000 / 22050 /
\* 16000 Hz for high / medium / low / very_low; for any other tier it does
\* not fail and returns what it returns for 'high'.
C9_QualityRates ==
    (method = "apply_quality_settings" /\ pc # "called") =>
        /\ pc = "returned"
        /\ error = "none"
        /\ result.frame_rate =
               CASE audio_quality = "high" -> 44100
                 [] audio_quality = "medium" -> 32000
                 [] audio_quality = "low" -> 22050
                 [] audio_quality = "very_low" -> 16000
                 [] OTHER -> 44100
        /\ result.dur = audio.dur
        /\ result.channels = audio.channels
        /\ audio_quality \notin {"high", "medium", "low", "very_low"} =>
               result = apply_quality_settings(audio, "high")

C9_Witness ==
    /\ method = "apply_quality_settings"
    /\ pc = "returned"
    /\ audio_quality = "ultra"
    /\ audio.frame_rate = 48000
    /\ result.frame_rate = 44100

\* ---- C10

\* C10: add_background_noise with noise type 'none' returns its input
\* track as it is, whatever the level, and asks for no noise bed.
C10_NoneIsIdentity ==
    (method = "add_background_noise" /\ pc = "returned"
        /\ background_noise_type = "none") =>
        /\ result = audio
        /\ bed_requests = <<>>

C10_Witness ==
    /\ method = "add_background_noise"
    /\ pc = "returned"
    /\ background_noise_type = "none"
    /\ background_noise_level = "loud"
    /\ audio.dur > 0
    /\ result = audio

\* ---- C11

\* C11 as stated: the track add_background_noise returns is as long as its
\* input track and has as many channels, whatever the noise type, the
\* level and the ambient sample found on disk.
C11_SameDurationChannels ==
    (method = "add_background_noise" /\ pc = "returned") =>
        /\ result.dur = audio.dur
        /\ result.channels = audio.channels

\* ---- C12

\* The attenuation the level stands for, an unknown level counting as
\* 'moderate'.
LevelGain(level) ==
    CASE level = "light" -> -30
      [] level = "moderate" -> -20
      [] level = "heavy" -> -10
      [] level = "extreme" -> -5
      [] OTHER -> -20

\* C12: with a noise type other than 'none', add_background_noise does not
\* fail and returns the input laid over the noise bed with a gain of -30,
\* -20, -10, -5 dB for light, moderate, heavy, extreme, and of -20 dB
\* for a level it does not know.
C12_GainByLevel ==
    (method = "add_background_noise" /\ pc # "called"
        /\ background_noise_type # "none"
        /\ background_noise_level # "none") =>
        /\ pc = "returned"
        /\ error = "none"
        /\ \E rnd \in Rnd(audio.dur) :
              result =
                  Overlay(Gain(generate_background_noise(audio.dur,
                                   background_noise_type, sample_file, rnd),
                               LevelGain(background_noise_level)),
                          audio, 0)

C12_Witness ==
    /\ method = "add_background_noise"
    /\ pc = "returned"
    /\ background_noise_type = "traffic"
    /\ background_noise_level = "loud"
    /\ sample_file.state = "missing"
    /\ audio.dur > 0
    /\ \E l \in result.layers :
          l.kind = "sine" /\ l.p = 40 /\ l.db = (-15) + (-20)

\* ---- C13

\* pause_after * 1000 rounded to the nearest millisecond.
NearestMs(item) == (2 * item.pause_after + PauseDen) \div (2 * PauseDen)

\* C13 as stated: every iteration of the loop of combine_dialogue_audio
\* makes the track longer by the clip and by pause_after * 1000 rounded
\* to the nearest millisecond.
C13_SilenceRounded ==
    [][(Mono /\ pc = "combine" /\ i' = i + 1) =>
          combined'.dur =
              combined.dur + audio_segments[i].len + NearestMs(dialogue[i])]_vars

\* ---- C14

SirenRun ==
    /\ method = "generate_background_noise"
    /\ noise_type = "sirens"
    /\ steps = <<"synthesis">>
    /\ pc \in {"sirens", "returned"}

\* The tones of the track, as (frequency, offset, length).
Tones(t) == {<<l.p, l.at, l.len>> : l \in {m \in t.layers : m.kind = "sine"}}

\* The segments made so far sit at 0, 800, 1600, ... inside the requested
\* duration, each 800 ms long or cut at the end of it; once the loop is
\* over they reach the end, and they are the tones of the returned bed.
SirensTiling ==
    SirenRun =>
        /\ position = 800 * Len(segments)
        /\ \A k \in 1..Len(segments) :
              /\ segments[k].position = 800 * (k - 1)
              /\ segments[k].position < duration_ms
              /\ segments[k].seg_duration =
                     IF 800 * k <= duration_ms THEN 800
                     ELSE duration_ms - 800 * (k - 1)
        /\ pc = "returned" =>
              /\ Len(segments) = (duration_ms + 799) \div 800
              /\ Len(segments) > 0 =>
                     segments[Len(segments)].position
                     + segments[Len(segments)].seg_duration = duration_ms
              /\ Tones(result) =
                     {<<segments[k].freq, segments[k].position,
                        segments[k].seg_duration>> : k \in 1..Len(segments)}
              /\ duration_ms = 2000 =>
                     [k \in 1..Len(segments) |-> segments[k].seg_duration]
                     = <<800, 800, 400>>

\* C15: for sirens and any duration the segment loop ends, and its
\* segments at 0, 800, 1600, ... tile the requested duration with no gap
\* and no overlap, the last one cut at the end (2000 ms: 800, 800, 400).
C15_SirensTile ==
    []SirensTiling /\ <>(noise_type = "sirens" => pc = "returned")

C15_Witness ==
    /\ SirenRun
    /\ pc = "returned"
    /\ duration_ms = 2000
    /\ Len(segments) = 3
    /\ segments[3].position = 1600
    /\ segments[3].seg_duration = 400

\* ---- C16

\* C16: siren segments alternate by index, the even ones (the first, the
\* third, ...) within 600..700 Hz and the odd ones within 700..800 Hz,
\* whatever is drawn for the other segments.
C16_TonesAlternate ==
    SirenRun =>
        \A k \in 1..Len(segments) :
            IF (k - 1) % 2 = 0
            THEN segments[k].freq \in 600..700
            ELSE segments[k].freq \in 700..800

C16_Witness ==
    /\ SirenRun
    /\ pc = "returned"
    /\ Len(segments) = 3
    /\ segments[1].freq = 600
    /\ segments[2].freq = 800
    /\ segments[3].freq = 700

\* ---- C17

\* generate_background_noise has returned a bed it synthesized.
Synthesized ==
    /\ method = "generate_background_noise"
    /\ pc = "returned"
    /\ steps = <<"synthesis">>

\* C17 as stated: for a noise type that is none of the six, the bed is the
\* one synthesized for 'static': same layers, same band, same gain.
C17_DefaultIsStatic ==
    (Synthesized /\ noise_type \notin SampleTypes) =>
        result = Synthesize(duration_ms, "static", <<>>)

\* ---- C18

\* C18: a synthesized bed is mono and as long as requested, and every
\* layer of it runs from the start to the end of it; the tones of sirens
\* do so as a row of segments, one at every multiple of 800 ms, each
\* reaching the next one or the end.
C18_FullLengthMono ==
    Synthesized =>
        /\ result.channels = 1
        /\ result.dur = duration_ms
        /\ duration_ms > 0 => \E l \in result.layers : l.kind = "white"
        /\ \A l \in result.layers :
              /\ l.ch = 0
              /\ IF noise_type = "sirens" /\ l.kind = "sine"
                 THEN /\ l.at % 800 = 0
                      /\ l.at + l.len = Min(l.at + 800, duration_ms)
                 ELSE /\ l.at = 0
                      /\ l.len = duration_ms
        /\ noise_type = "sirens" =>
              \A k \in 0..(((duration_ms + 799) \div 800) - 1) :
                  \E l \in result.layers : l.kind = "sine" /\ l.at = 800 * k

C18_Witness ==
    /\ Synthesized
    /\ noise_type = "crowd"
    /\ duration_ms = 2000
    /\ Cardinality(result.layers) = 7
    /\ \A l \in result.layers : l.len = 2000

\* ---- C19

\* The layers of the track as (kind, frequency, gain, band).
Mix(t) == {<<l.kind, l.p, l.db, l.band>> : l \in t.layers}

\* C19: the beds synthesized for dispatch, traffic, crowd and wind are
\* made of the layers of the recipe table, each with its gain and the
\* noise with its band, and of nothing else.
C19_RecipeLayers ==
    (Synthesized /\ duration_ms > 0) =>
        /\ noise_type = "dispatch" =>
              Mix(result) = {<<"sine", 60, -25, WorkRate>>,
                             <<"sine", 120, -30, WorkRate>>,
                             <<"white", 0, -20, 8000>>}
        /\ noise_type = "traffic" =>
              Mix(result) = {<<"sine", 40, -15, WorkRate>>,
                             <<"sine", 55, -18, WorkRate>>,
                             <<"sine", 80, -20, WorkRate>>,
                             <<"white", 0, -18, 3000>>}
        /\ noise_type = "crowd" =>
              \E a, b, c, e \in (-25)..(-22) :
                  Mix(result) = {<<"sine", 110, a, WorkRate>>,
                                 <<"sine", 130, b, WorkRate>>,
                                 <<"sine", 150, c, WorkRate>>,
                                 <<"sine", 200, e, WorkRate>>,
                                 <<"sine", 800, -28, WorkRate>>,
                                 <<"sine", 1200, -30, WorkRate>>,
                                 <<"white", 0, -25, 12000>>}
        /\ noise_type = "wind" =>
              Mix(result) = {<<"sine", 30, -18, WorkRate>>,
                             <<"sine", 45, -20, WorkRate>>,
                             <<"sine", 65, -22, WorkRate>>,
                             <<"white", 0, -22, 2000>>}

C19_Witness ==
    /\ Synthesized
    /\ noise_type = "wind"
    /\ duration_ms = 400
    /\ sample_file.state = "corrupt"
    /\ <<"white", 0, -22, 2000>> \in Mix(result)
    /\ Cardinality(Mix(result)) = 4

\* ---- C20

\* The sample's path holds nothing that can be played.
NoUsableSample(file) ==
    \/ file.state \in {"missing", "corrupt"}
    \/ file.state = "ok" /\ file.len = 0

\* add_background_noise was called for a noise bed.
BedCall ==
    /\ method = "add_background_noise"
    /\ pc # "called"
    /\ background_noise_type # "none"

\* The call has returned its input laid over the synthesized bed.
OverSynthesizedBed ==
    /\ pc = "returned"
    /\ error = "none"
    /\ \E rnd \in Rnd(audio.dur) :
          result =
              Overlay(Gain(Synthesize(audio.dur, background_noise_type, rnd),
                           LevelGain(background_noise_level)),
                      audio, 0)

\* C20 as stated: with a missing, unreadable, undecodable or empty sample
\* file add_background_noise does not fail, load_ambient_sample reports no
\* sample, and the bed is the synthesized one.
C20_NoSampleReported ==
    (BedCall /\ NoUsableSample(sample_file)) =>
        /\ OverSynthesizedBed
        /\ load_ambient_sample(background_noise_type, audio.dur, sample_file)
               = None

\* C20 (amended): with a missing, unreadable, undecodable or empty sample
\* file add_background_noise does not fail and returns its input over the
\* synthesized bed; load_ambient_sample reports no sample, except for an
\* empty sample asked for 0 ms, which it returns as an empty track.
C20_FallsBackToSynthesis ==
    (BedCall /\ NoUsableSample(sample_file)) =>
        /\ OverSynthesizedBed
        /\ LET sample == load_ambient_sample(background_noise_type,
                              audio.dur, sample_file)
           IN  IF /\ background_noise_type \in SampleTypes
                  /\ sample_file.state = "ok"
                  /\ audio.dur = 0
               THEN sample # None /\ sample.dur = 0 /\ sample.layers = {}
               ELSE sample = None

C20_Witness ==
    /\ BedCall
    /\ background_noise_type = "dispatch"
    /\ sample_file.state = "corrupt"
    /\ audio.dur > 0
    /\ pc = "returned"
    /\ \E l \in result.layers : l.kind = "sine" /\ l.p = 60

\* ---- C21

\* generate_background_noise has returned what load_ambient_sample gave it.
SampleReturned ==
    /\ method = "generate_background_noise"
    /\ pc = "returned"
    /\ steps = <<"sample">>

\* C21: a track load_ambient_sample returns is as long as requested,
\* whether the sample had to be looped or trimmed, and the sample fills it
\* up to its end.
C21_SampleFitsDuration ==
    SampleReturned =>
        /\ result.dur = duration_ms
        /\ \A l \in result.layers :
              /\ l.kind = "sample"
              /\ l.len > 0
              /\ l.at + l.len <= duration_ms
        /\ duration_ms > 0 =>
              \E l \in result.layers : l.at + l.len = duration_ms
        /\ \A l \in result.layers :
              l.at = 0 \/ \E m \in result.layers : m.at + m.len = l.at

C21_Witness ==
    /\ SampleReturned
    /\ sample_file.len = 1000
    /\ duration_ms = 2400
    /\ result.dur = 2400
    /\ \E l \in result.layers : l.at = 2000 /\ l.len = 400

\* ---- C22

\* The track the next step works on.
Current == IF Mono THEN combined ELSE stereo

\* The steps taken so far are the first ones of assemble, quality, noise,
\* and all three have been taken when the call returns.
StepsInOrder ==
    /\ \E n \in 0..3 : steps = SubSeq(<<"assemble", "quality", "noise">>, 1, n)
    /\ pc = "returned" => Len(steps) = 3
    /\ bed_requests # <<>> => Len(steps) = 3

\* C22: both assembly methods assemble, then degrade, then mix the noise,
\* each once; when the noise step starts the track is already degraded,
\* and the bed it asks for is as long as that track.
C22_StepOrder ==
    /\ []StepsInOrder
    /\ [][(pc = "noise" /\ pc' = "returned") =>
             /\ steps = <<"assemble", "quality">>
             /\ Current = apply_quality_settings(Current, audio_quality)
             /\ bed_requests' = IF background_noise_type = "none" THEN <<>>
                                ELSE <<Current.dur>>]_vars

C22_Witness ==
    /\ Diarized
    /\ pc = "returned"
    /\ audio_quality = "very_low"
    /\ background_noise_type = "static"
    /\ steps = <<"assemble", "quality", "noise">>
    /\ bed_requests = <<total_duration>>
    /\ total_duration > 0

\* ---- C23

\* C23 as stated: the track an assembly method returns has the sample
\* rate of the quality tier, whatever the noise type.
C23_TierRateKept ==
    (pc = "returned" /\ method \in {"combine_dialogue_audio",
                                     "create_diarized_audio"}) =>
        result.frame_rate = quality_settings(audio_quality)

\* ---- C24

\* C24: with a noise type other than 'none' and the level 'none',
\* add_background_noise mixes the bed in at -20 dB, as it does for
\* 'moderate'.
C24_LevelNoneIsModerate ==
    (BedCall /\ background_noise_level = "none") =>
        /\ pc = "returned"
        /\ error = "none"
        /\ bed_requests = <<audio.dur>>
        /\ \E rnd \in Rnd(audio.dur) :
              /\ result =
                     Overlay(Gain(generate_background_noise(audio.dur,
                                      background_noise_type, sample_file, rnd),
                                  -20),
                             audio, 0)
              /\ result = add_background_noise(audio, background_noise_type,
                               "moderate", sample_file, rnd)

C24_Witness ==
    /\ BedCall
    /\ background_noise_level = "none"
    /\ background_noise_type = "wind"
    /\ sample_file.state = "missing"
    /\ audio.dur > 0
    /\ \E l \in result.layers : l.kind = "white" /\ l.db = (-22) + (-20)

\* ---- C25

\* _validate_dialogue has returned True.
Accepted ==
    /\ method = "_validate_dialogue"
    /\ pc = "returned"
    /\ result = TRUE

\* C25 as stated: a dialogue _validate_dialogue accepts has at least 4
\* turns, each with one of the four speakers, a text that is not blank
\* and a pause_after that is a number and not negative.
C25_AcceptedIsWellFormed ==
    Accepted =>
        /\ data = "list"
        /\ Len(dialogue) >= 4
        /\ \A k \in 1..Len(dialogue) :
              /\ dialogue[k].keys
              /\ dialogue[k].speaker \in Speakers
              /\ dialogue[k].text \notin {"", " "}
              /\ dialogue[k].pause_after.type = "number"
              /\ dialogue[k].pause_after.val >= 0

\* ---- C26

Handler == method = "generate"

\* The handler has called the assembler.
AssemblerCalled ==
    \E k \in 1..Len(calls) :
        calls[k] \in {"combine_dialogue_audio", "create_diarized_audio"}

\* C26: in the /generate handler the clips rendered so far are one per
\* turn processed, in turn order and in the voice of the turn's speaker;
\* the assembler is called with as many clips as turns, and it is not
\* called at all when a text-to-speech call has failed.
C26_ClipsMatchTurns ==
    Handler =>
        /\ pc = "speech" => Len(audio_segments) = i - 1
        /\ Len(audio_segments) <= Len(dialogue)
        /\ \A k \in 1..Len(audio_segments) :
              /\ audio_segments[k].turn = k
              /\ audio_segments[k].voice =
                     IF dialogue[k].speaker = "dispatcher"
                     THEN form.dispatcher_voice_id
                     ELSE form.caller_voice_id
        /\ AssemblerCalled =>
              /\ Len(audio_segments) = Len(dialogue)
              /\ error # "SpeechError"
              /\ Len(dialogue) > 0
        /\ error = "SpeechError" =>
              /\ ~AssemblerCalled
              /\ pc = "returned"
              /\ ~response.success

C26_Witness ==
    /\ Handler
    /\ pc = "returned"
    /\ response.success
    /\ AssemblerCalled
    /\ Len(audio_segments) = 4
    /\ dialogue[2].speaker = "nurse"
    /\ audio_segments[2].turn = 2
    /\ audio_segments[2].voice = "v2"

\* ---- C27

\* The request has an empty or too long prompt, a format that is neither
\* mp3 nor wav, or a voice missing.
InvalidForm ==
    \/ form.prompt.blank
    \/ form.prompt.chars = 0
    \/ form.prompt.chars > 500
    \/ form.audio_format \notin {"mp3", "wav", "MP3", "WAV"}
    \/ form.dispatcher_voice_id = ""
    \/ form.caller_voice_id = ""

\* C27: an invalid request to /generate is answered with 400, and no
\* voice is looked up, no dialogue generated, no speech rendered, nothing
\* assembled and nothing saved for it.
C27_InvalidRequestRejected ==
    (Handler /\ InvalidForm) =>
        /\ calls = <<>>
        /\ steps = <<>>
        /\ pc \in {"called", "returned"}
        /\ pc = "returned" =>
              /\ response.status = 400
              /\ ~response.success

C27_Witness ==
    /\ Handler
    /\ pc = "returned"
    /\ form.prompt.chars = 501
    /\ form.audio_format = "mp3"
    /\ form.call_duration = "60"
    /\ form.dispatcher_voice_id = "v1"
    /\ form.caller_voice_id = "v2"
    /\ response.status = 400
    /\ calls = <<>>

\* ---- C28

\* C28: a step of /generate that fails ends the request with an error
\* response, 400 for a ValueError and 500 for any other exception; the
\* success response and the saved file are there only when the voices,
\* the dialogue, every clip and the assembly have all been obtained.
C28_FailureIsErrorResponse ==
    (Handler /\ pc = "returned") =>
        /\ error # "none" =>
              /\ ~response.success
              /\ response.status = IF error = "ValueError" THEN 400 ELSE 500
              /\ steps = <<>>
        /\ response.success <=> steps = <<"saved">>
        /\ response.success =>
              /\ error = "none"
              /\ response.status = 200
              /\ Len(audio_segments) = Len(dialogue)
              /\ AssemblyOutcome(form.diarized, dialogue, audio_segments)
                     = "none"
              /\ calls = <<"get_voice_info", "get_voice_info",
                           "generate_dialogue">>
                         \o [k \in 1..Len(dialogue) |-> "text_to_speech"]
                         \o <<IF form.diarized THEN "create_diarized_audio"
                               ELSE "combine_dialogue_audio",
                              "save_audio_file">>

C28_Witness ==
    /\ Handler
    /\ pc = "returned"
    /\ error = "DecodeError"
    /\ AssemblerCalled
    /\ response.status = 500
    /\ steps = <<>>

\* ---- C29

\* The resolved path of the file asked for lies in the output directory:
\* the directory's components are the first ones of the path's.
InsideOutputDir ==
    LET dir == Resolved(output_dir)
        path == Resolved(join(output_dir, filename))
    IN  /\ Len(dir) <= Len(path)
        /\ SubSeq(path, 1, Len(dir)) = dir

\* C29 as stated: get_file_path returns a path only if it lies inside the
\* output directory; for every filename that resolves to a path outside
\* of it, the sibling directories reached via '..' included, it raises
\* ValueError.
C29_OutsideIsRefused ==
    (method = "download" /\ pc # "called" /\ ~InsideOutputDir) =>
        /\ error = "ValueError"
        /\ pc = "returned"
        /\ response.status = 400

====
